---- MODULE Spec2Model ----
(***************************************************************************)
(* TX7332 PMUT control backend: the paged register transaction protocol   *)
(* of TX7332Controller, the delay encoder of BeamformingService, the      *)
(* apply sequences of the pattern, beamforming and channel routers, the   *)
(* resets and the diagnostics.                                            *)
(*                                                                         *)
(* A 32-bit register value is kept as a pair <<hi, lo>> of 16-bit halves, *)
(* because TLC's integers are 32-bit signed and the device uses the full  *)
(* unsigned range (0xFFFF0000, 0xB5B10100, ...).  Quantities the code     *)
(* keeps below 2^31 (encoded delays, packed delay words) stay integers.   *)
(***************************************************************************)
EXTENDS Integers, Sequences, FiniteSets, TLC

VARIABLES
    connected,      \* TX7332Controller.connected
    device,         \* TX7332Controller.device: "None", "live" (a USBQPort whose
                    \* controller.instrument is set) or "dead" (instrument is None)
    regs,           \* the device: its page-select register (2) and the registers
                    \* of the global page that the sequences write
    req,            \* the requests in the event loop: r -> handler frame
    calls,          \* the controller-level calls of the requests not yet answered
    log,            \* the transport operations of the requests not yet answered
    failures,       \* number of transport errors raised so far
    cur_pattern,    \* routers/patterns.py: _current_pattern
    cur_bf,         \* routers/beamforming.py: _current_beamforming
    channel_state,  \* routers/channels.py: _channel_state
    fn_in, fn_out,  \* input and result of the pure function under check
    link_ret        \* what connect() or disconnect() returned to its handler,
                    \* until the handler has responded: <<method, value>>

cfg == <<cur_pattern, cur_bf, channel_state>>
vars == <<connected, device, regs, req, calls, log, failures, cfg, fn_in, fn_out,
          link_ret>>

----------------------------------------------------------------------------
(* Bounds of the model. *)

MaxRequests == 2        \* requests outstanding at the same time
MaxFailures == 1        \* transport errors raised in one behaviour
MaxCycles == 16400      \* largest delay_cycles given to the encoder
MaxDelayLen == 33       \* longest delay array given to combine_channel_delays
MaxPatternLen == 35     \* longest custom pattern given to apply_pattern

Requests == 1..MaxRequests

----------------------------------------------------------------------------
(* 32-bit words. *)

TwoTo16 == 65536

W(n) == <<n \div TwoTo16, n % TwoTo16>>
W0 == <<0, 0>>

\* Python's a & b for b >= 0 (a may be negative: two's complement, as Python's
\* unbounded integers behave; \div floors and % is non-negative).
RECURSIVE BitAnd(_, _)
BitAnd(a, b) ==
    IF b = 0 THEN 0
    ELSE (a % 2) * (b % 2) + 2 * BitAnd(a \div 2, b \div 2)

\* Python's a | b for a, b >= 0.
RECURSIVE BitOr(_, _)
BitOr(a, b) ==
    IF a = 0 THEN b
    ELSE IF b = 0 THEN a
    ELSE (IF a % 2 = 1 \/ b % 2 = 1 THEN 1 ELSE 0) + 2 * BitOr(a \div 2, b \div 2)

----------------------------------------------------------------------------
(* BeamformingService: the delay encoder. *)

NUM_CHANNELS == 32
DEL_MASK == 16383        \* 0x3FFF
FRAC_DEL == 16384        \* 0x4000

\* Mutant of encode_delay_to_hex: a 13-bit mask.
encode_delay_short_mask(delay_cycles, fractional) ==
    LET value == BitAnd(delay_cycles, 8191)
    IN IF fractional THEN BitOr(value, FRAC_DEL) ELSE value

encode_delay_to_hex(delay_cycles, fractional) ==
    LET value == BitAnd(delay_cycles, DEL_MASK)
    IN IF fractional THEN BitOr(value, FRAC_DEL) ELSE value

\* Mutant of combine_channel_delays: the two halves swapped.
combine_halves_swapped(delays) ==
    IF Len(delays) # NUM_CHANNELS THEN [err |-> TRUE, words |-> << >>]
    ELSE [err |-> FALSE,
          words |-> [k \in 1..(NUM_CHANNELS \div 2) |->
              BitOr(encode_delay_to_hex(delays[2 * k - 1], FALSE) * TwoTo16,
                    encode_delay_to_hex(delays[2 * k], FALSE))]]

\* Mutant of combine_channel_delays: pairs whatever it is given.
combine_any_length(delays) ==
    [err |-> FALSE,
     words |-> [k \in 1..(Len(delays) \div 2) |->
         BitOr(encode_delay_to_hex(delays[2 * k], FALSE) * TwoTo16,
               encode_delay_to_hex(delays[2 * k - 1], FALSE))]]

\* err: ValueError("Must provide exactly 32 delay values").  words[k] is
\* combined[k-1]: Python's delays[i], delays[i+1] for i = 2(k-1) are
\* delays[2k-1], delays[2k] here.
combine_channel_delays(delays) ==
    IF Len(delays) # NUM_CHANNELS THEN [err |-> TRUE, words |-> << >>]
    ELSE [err |-> FALSE,
          words |-> [k \in 1..(NUM_CHANNELS \div 2) |->
              LET delay_odd == encode_delay_to_hex(delays[2 * k - 1], FALSE)
                  delay_even == encode_delay_to_hex(delays[2 * k], FALSE)
              IN BitOr(delay_even * TwoTo16, delay_odd)]]

----------------------------------------------------------------------------
(* TX7332Controller: the register transaction protocol. *)

Flag(b) == IF b THEN <<0, 1>> ELSE W0

\* A controller-level call and a transport-level operation.
Call(fn, a, v, p) == [fn |-> fn, addr |-> a, val |-> v, ps |-> p]
Dev(op, a, v) == [op |-> op, addr |-> a, val |-> v]

is_connected == connected /\ device # "None"

\* Mutants of write_reg: the page select is not reset / is set too late.
write_reg_no_reset(address, value, page_select) ==
    << Dev("writeReg", 2, page_select),
       Dev("writeReg", address, value) >>

write_reg_late_select(address, value, page_select) ==
    << Dev("writeReg", address, value),
       Dev("writeReg", 2, page_select),
       Dev("writeReg", 2, W0) >>

\* The transport operations write_reg makes after ensure_connected, in order.
write_reg(address, value, page_select) ==
    << Dev("writeReg", 2, page_select),
       Dev("writeReg", address, value),
       Dev("writeReg", 2, W0) >>

\* Mutant of read_reg: read mode is left enabled.
read_reg_mode_left_on(address, page_select) ==
    << Dev("writeReg", 2, page_select),
       Dev("writeReg", 0, W(2)),
       Dev("readReg", address, W0),
       Dev("writeReg", 2, W0),
       Dev("writeReg", 0, W0) >>

\* The transport operations read_reg makes after ensure_connected, in order;
\* the value of the readReg entry is filled in by the device.
read_reg(address, page_select) ==
    << Dev("writeReg", 2, page_select),
       Dev("writeReg", 0, W(2)),
       Dev("readReg", address, W0),
       Dev("writeReg", 0, W0),
       Dev("writeReg", 2, W0) >>

enable_sync(enable) == << Dev("enableSync", 0, enable) >>

\* hardware_reset before its write_reg: the operations on
\* device.controller.instrument, RESET (0x08) pulled up and down again.
reset_pulse ==
    << Dev("setBitMode", 255, <<0, 1>>),
       Dev("write", 0, W0),
       Dev("write", 0, W(8)),
       Dev("write", 0, W0) >>

DeviceOps(c) ==
    CASE c.fn = "write_reg"   -> write_reg(c.addr, c.val, c.ps)
      [] c.fn = "read_reg"    -> read_reg(c.addr, c.ps)
      [] c.fn = "enable_sync" -> enable_sync(c.val)
      [] c.fn = "hardware_reset" -> reset_pulse
      [] OTHER                -> << >>

----------------------------------------------------------------------------
(* The device behind the transport: register 2 selects the page, and an    *)
(* access to any other address goes to the page selected at that moment.   *)

REG_PAGE_SELECT == 2

TrackedRegs == {2, 8} \cup (12..20)

\* The registers after writeReg(addr, value) took effect.
Written(rg, addr, value) ==
    IF addr = REG_PAGE_SELECT THEN [rg EXCEPT ![2] = value]
    ELSE IF addr \in TrackedRegs /\ rg[2] = W0 THEN [rg EXCEPT ![addr] = value]
    ELSE rg

----------------------------------------------------------------------------
(* Requests.  Every endpoint is an `async def` coroutine whose body never  *)
(* awaits, and the controller is called synchronously from it.             *)

NoArg == [addr |-> 0, val |-> W0, ps |-> W0]

\* The locals of the handlers: pattern_hex and pattern_start_word; delays
\* (<< >> until computed) and combined_delays; where run_diagnostics is and
\* its list of checks (check_name and passed of each entry).
NoLocals ==
    [words |-> << >>, start |-> 0, delays |-> << >>, packed |-> << >>,
     stage |-> "none", checks |-> << >>]

IdleFrame ==
    [st |-> "idle", kind |-> "none", arg |-> NoArg, loc |-> NoLocals,
     plan |-> << >>, pos |-> 1, sub |-> 0, result |-> "none"]

\* Mutant of CanStart: handlers run as concurrent threads would.
CanStart_concurrently(r) == req[r].st = "pending"

\* The event loop runs a coroutine until it awaits or returns; no handler
\* awaits, so a handler starts only when no other handler is running.
CanStart(r) == \A q \in Requests : req[q].st # "running"

\* link_ret while no connect_device or disconnect_device is responding.
NoReturn == <<"none", FALSE>>

\* No handler is running and no response is waiting to be delivered.
LoopIdle ==
    /\ link_ret = NoReturn
    /\ \A q \in Requests : req[q].st \notin {"running", "done"}

\* The lowest free request slot.
NextId(r) ==
    /\ req[r].st = "idle"
    /\ \A q \in Requests : q < r => req[q].st # "idle"

DirectKinds == {"write_reg", "read_reg", "enable_sync"}

\* Mutant of on_exception: a handler goes on with its next call.
on_exception_swallowed(f, err) ==
    IF f.kind \in DirectKinds THEN [f EXCEPT !.st = "done", !.result = err]
    ELSE [f EXCEPT !.pos = @ + 1, !.sub = 0]

\* Mutant of on_exception: every exception in a handler is an HTTP 500.
on_exception_http500(f, err) ==
    IF f.kind \in DirectKinds THEN [f EXCEPT !.st = "done", !.result = err]
    ELSE [f EXCEPT !.st = "done", !.result = "http500"]

\* What the caller of the handler sees when a controller call raises.
on_exception(f, err) ==
    CASE f.kind \in DirectKinds -> [f EXCEPT !.st = "done", !.result = err]
         \* memory_reset: the except inside the loop, then the next address
      [] f.kind = "memory_reset" /\ f.pos > 1 -> [f EXCEPT !.pos = @ + 1, !.sub = 0]
         \* run_diagnostics: the outer except, and the except around the
         \* reset of the error flags; both report FAIL in a normal response
      [] f.kind = "run_diagnostics" /\ f.loc.stage = "reads" /\ f.pos > 1 ->
            [f EXCEPT !.st = "done", !.result = "FAIL", !.loc.stage = "reads_failed",
                      !.loc.checks = Append(@, [check_name |-> "DIAGNOSTICS",
                                                passed |-> FALSE])]
      [] f.kind = "run_diagnostics" /\ f.loc.stage = "reset" ->
            [f EXCEPT !.st = "done", !.result = "FAIL", !.loc.stage = "reset_failed",
                      !.loc.checks = Append(@, [check_name |-> "ERROR_RESET",
                                                passed |-> FALSE])]
      [] OTHER -> [f EXCEPT !.st = "done", !.result = "http500"]

----------------------------------------------------------------------------
(* PatternService and the pattern router. *)

\* "pattern_hex" and "pattern_start_word" of PRESET_PATTERNS.
PRESET_PATTERNS ==
    [p \in {"5.6MHz_3LVL_A", "5.6MHz_3LVL_extended", "3.4MHz_2LVL_A", "test_glitch"} |->
        CASE p = "5.6MHz_3LVL_A" ->
                [pattern_hex |-> << <<2, 2>>, <<0, 46513>> >>,        \* 0x00020002, 0x0000B5B1
                 pattern_start_word |-> 30]
          [] p = "5.6MHz_3LVL_extended" ->
                [pattern_hex |-> << <<46513, 256>>, <<51400, 1280>>, <<0, 65280>> >>,
                 pattern_start_word |-> 30]
          [] p = "3.4MHz_2LVL_A" ->
                [pattern_hex |-> << <<12793, 768>>, <<1280, 13821>>, <<65280, 51400>> >>,
                 pattern_start_word |-> 30]
          [] OTHER ->
                [pattern_hex |-> << <<41120, 0>> >>,                  \* 0xA0A00000
                 pattern_start_word |-> 30]]

\* The start word of a custom pattern ("Default").
DEFAULT_START_WORD == 30

\* A custom_hex entry is a string: a sequence of characters.
HexChars == << "0", "1", "2", "3", "4", "5", "6", "7",
               "8", "9", "a", "b", "c", "d", "e", "f" >>
IsHexChar(c) == \E k \in DOMAIN HexChars : HexChars[k] = c
HexVal(c) == (CHOOSE k \in DOMAIN HexChars : HexChars[k] = c) - 1

\* The magnitude of a digit string as <<hi, lo>>, most significant digit first.
RECURSIVE HexMagnitude(_, _)
HexMagnitude(digits, acc) ==
    IF digits = << >> THEN acc
    ELSE LET low == acc[2] * 16 + HexVal(Head(digits))
         IN HexMagnitude(Tail(digits),
                         <<acc[1] * 16 + low \div TwoTo16, low % TwoTo16>>)

\* -(hi * 2^16 + lo) as a pair <<floor(v / 2^16), v mod 2^16>>.
Negated(w) ==
    IF w[2] = 0 THEN <<0 - w[1], 0>> ELSE <<0 - w[1] - 1, TwoTo16 - w[2]>>

\* int(h, 16): err is ValueError.
int16(h) ==
    LET neg == h # << >> /\ Head(h) = "-"
        digits == IF neg THEN Tail(h) ELSE h
    IN IF digits = << >> \/ \E k \in DOMAIN digits : ~IsHexChar(digits[k])
       THEN [err |-> TRUE, val |-> W0]
       ELSE [err |-> FALSE,
             val |-> IF neg THEN Negated(HexMagnitude(digits, W0))
                     ELSE HexMagnitude(digits, W0)]

\* 0 <= val <= 0xFFFFFFFF for every word of a non-empty list.
validate_custom_pattern(pattern_hex) ==
    /\ pattern_hex # << >>
    /\ \A k \in DOMAIN pattern_hex :
         pattern_hex[k][1] >= 0 /\ pattern_hex[k][1] < TwoTo16

\* Mutant of pattern_sequence: the pattern words go to the global page.
pattern_sequence_global_page(pattern_hex, pattern_start_word) ==
    << Call("enable_sync", 0, Flag(FALSE), W0),
       Call("write_reg", 8, W0, W0) >>
    \o [k \in 1..8 |->
          Call("write_reg", 12 + (k - 1),
               W(BitOr(pattern_start_word * TwoTo16, pattern_start_word)), W0)]
    \o [k \in 1..Len(pattern_hex) |->
          Call("write_reg", 64 + pattern_start_word + (k - 1), pattern_hex[k], W0)]

\* The controller calls of apply_pattern from "Disable sync before writing" on.
pattern_sequence(pattern_hex, pattern_start_word) ==
    << Call("enable_sync", 0, Flag(FALSE), W0),
       Call("write_reg", 8, W0, W0) >>
    \o [k \in 1..8 |->
          Call("write_reg", 12 + (k - 1),
               W(BitOr(pattern_start_word * TwoTo16, pattern_start_word)), W0)]
    \o [k \in 1..Len(pattern_hex) |->
          Call("write_reg", 64 + pattern_start_word + (k - 1),
               pattern_hex[k], <<0, 65535>>)]

ApplyFrame(kind, result, loc, plan) ==
    [IdleFrame EXCEPT !.kind = kind, !.loc = loc, !.plan = plan,
                      !.st = IF result = "run" THEN "running" ELSE "done",
                      !.result = IF result = "run" THEN "none" ELSE result]

\* apply_pattern up to its first controller call, given _current_pattern.
apply_pattern(pattern) ==
    IF ~is_connected THEN ApplyFrame("apply_pattern", "http400", NoLocals, << >>)
    ELSE IF pattern.custom_hex # << >>
    THEN LET parsed == [k \in DOMAIN pattern.custom_hex |-> int16(pattern.custom_hex[k])]
         IN IF \E k \in DOMAIN parsed : parsed[k].err
            THEN ApplyFrame("apply_pattern", "http500", NoLocals, << >>)
            ELSE LET pattern_hex == [k \in DOMAIN parsed |-> parsed[k].val]
                 IN ApplyFrame("apply_pattern", "run",
                        [NoLocals EXCEPT !.words = pattern_hex,
                                         !.start = DEFAULT_START_WORD],
                        pattern_sequence(pattern_hex, DEFAULT_START_WORD))
    ELSE IF pattern.pattern_type \notin DOMAIN PRESET_PATTERNS
    THEN ApplyFrame("apply_pattern", "http400", NoLocals, << >>)
    ELSE LET preset == PRESET_PATTERNS[pattern.pattern_type]
         IN ApplyFrame("apply_pattern", "run",
                [NoLocals EXCEPT !.words = preset.pattern_hex,
                                 !.start = preset.pattern_start_word],
                pattern_sequence(preset.pattern_hex, preset.pattern_start_word))

InitialPattern == [pattern_type |-> "5.6MHz_3LVL_A", custom_hex |-> << >>]

\* custom_hex lists a client may send.
\* A list of MaxPatternLen words "0": every word is a valid 32-bit value.
LongCustomHex == [k \in 1..MaxPatternLen |-> <<"0">>]

CustomHexes ==
    { << <<"1", "e">> >>,
      LongCustomHex,
      << <<"f", "f", "f", "f", "f", "f", "f", "f">>, <<"0">>,
         <<"a", "0", "a", "0", "0", "0", "0", "0">>, <<"1", "e">> >>,
      << <<"1", "e">>, <<"-", "1">> >>,
      << <<"1", "0", "0", "0", "0", "0", "0", "0", "0">> >>,
      << <<"z", "z">> >> }

PatternConfigs ==
    { [pattern_type |-> t, custom_hex |-> << >>] :
        t \in (DOMAIN PRESET_PATTERNS) \cup {"custom"} }
    \cup { [pattern_type |-> "custom", custom_hex |-> h] : h \in CustomHexes }

----------------------------------------------------------------------------
(* BeamformingService: steering delays, and the beamforming router. *)

\* ELEMENT_POSITIONS in micrometres.
ELEMENT_POSITIONS ==
    << -1820, -1710, -1600, -1490, -1380, -1270, -1160, -1050,
       -935, -825, -715, -605, -495, -385, -275, -165,
       165, 275, 385, 495, 605, 715, 825, 935,
       1050, 1160, 1270, 1380, 1490, 1600, 1710, 1820 >>

\* np.sin(np.deg2rad(a)) in millionths for a = 0..30 degrees.  The double
\* for 30 degrees is 0.49999999999999994, below one half: 499999.
SIN_MICRO ==
    << 0, 17452, 34900, 52336, 69756, 87156, 104528, 121869, 139173, 156434,
       173648, 190809, 207912, 224951, 241922, 258819, 275637, 292372, 309017,
       325568, 342020, 358368, 374607, 390731, 406736, 422619, 438371, 453990,
       469472, 484810, 499999 >>

SinMicro(a) == IF a >= 0 THEN SIN_MICRO[a + 1] ELSE 0 - SIN_MICRO[1 - a]

\* frequency_hz when the caller gives none: 5.6e6.
DEFAULT_FREQUENCY_HZ == 5600000

\* np.round(a / b) for b > 0: to nearest, ties to even.
RoundHalfEven(a, b) ==
    LET q == a \div b
        r == a % b
    IN IF 2 * r < b THEN q
       ELSE IF 2 * r > b THEN q + 1
       ELSE IF q % 2 = 0 THEN q ELSE q + 1

Max(a, b) == IF a >= b THEN a ELSE b

SeqMin(seq) == CHOOSE m \in { seq[k] : k \in DOMAIN seq } :
                  \A k \in DOMAIN seq : m <= seq[k]

\* Mutant of calculate_delays_from_angle: the rounded cycles are returned
\* as they are.
calculate_delays_unclamped(steering_angle_deg, speed_of_sound, frequency_hz) ==
    [k \in DOMAIN ELEMENT_POSITIONS |->
        RoundHalfEven(ELEMENT_POSITIONS[k] * SinMicro(steering_angle_deg),
                      4000 * speed_of_sound)]

\* Mutant of calculate_delays_from_angle: the delay of an element is its
\* distance from the centre, whatever the angle.
calculate_delays_by_distance(steering_angle_deg, speed_of_sound, frequency_hz) ==
    [k \in DOMAIN ELEMENT_POSITIONS |->
        RoundHalfEven(Max(ELEMENT_POSITIONS[k], 0 - ELEMENT_POSITIONS[k]) * 1000000,
                      4000 * speed_of_sound)]

\* pos * sin(angle) / speed_of_sound / 4e-9 with pos in micrometres and the
\* sine in millionths is pos * sin / (4000 * speed_of_sound).  wavelength is
\* not used.
calculate_delays_from_angle(steering_angle_deg, speed_of_sound, frequency_hz) ==
    LET wavelength == <<speed_of_sound, frequency_hz>>
        cycles == [k \in DOMAIN ELEMENT_POSITIONS |->
                     RoundHalfEven(ELEMENT_POSITIONS[k] * SinMicro(steering_angle_deg),
                                   4000 * speed_of_sound)]
        delays == [k \in DOMAIN cycles |-> Max(0, cycles[k])]
        min_delay == SeqMin(delays)
    IN [k \in DOMAIN delays |-> delays[k] - min_delay]

\* Mutant of delay_sequence: clock sync detection is enabled before sync is.
delay_sequence_sync_last(combined_delays) ==
    << Call("enable_sync", 0, Flag(FALSE), W0) >>
    \o [k \in 1..8 |-> Call("write_reg", 13 + (k - 1), W0, W0)]
    \o [k \in 1..Len(combined_delays) |->
          Call("write_reg", 64 + (k - 1), W(combined_delays[k]), <<1, 0>>)]
    \o << Call("write_reg", 8, W(2), W0),
          Call("enable_sync", 0, Flag(TRUE), W0) >>

\* Mutant of delay_sequence: sync is enabled again before the delay words.
delay_sequence_early_sync(combined_delays) ==
    << Call("enable_sync", 0, Flag(FALSE), W0) >>
    \o [k \in 1..8 |-> Call("write_reg", 13 + (k - 1), W0, W0)]
    \o << Call("enable_sync", 0, Flag(TRUE), W0),
          Call("write_reg", 8, W(2), W0) >>
    \o [k \in 1..Len(combined_delays) |->
          Call("write_reg", 64 + (k - 1), W(combined_delays[k]), <<1, 0>>)]

\* The controller calls of apply_beamforming from "Disable sync" on.
delay_sequence(combined_delays) ==
    LET delay_start_word == 0
    IN << Call("enable_sync", 0, Flag(FALSE), W0) >>
       \o [k \in 1..8 |->
             Call("write_reg", 13 + (k - 1),
                  W(BitOr(delay_start_word * TwoTo16, delay_start_word)), W0)]
       \o [k \in 1..Len(combined_delays) |->
             Call("write_reg", 64 + delay_start_word * 8 + (k - 1),
                  W(combined_delays[k]), <<1, 0>>)]
       \o << Call("enable_sync", 0, Flag(TRUE), W0),
             Call("write_reg", 8, W(2), W0) >>

\* apply_beamforming up to its first controller call, given
\* _current_beamforming and what compute_focus_delays does (focus.err: it
\* raises).
apply_beamforming(config, focus) ==
    IF ~is_connected THEN ApplyFrame("apply_beamforming", "http400", NoLocals, << >>)
    ELSE IF config.auto_calculate /\ focus.err
    THEN ApplyFrame("apply_beamforming", "http500", NoLocals, << >>)
    ELSE LET delays == IF config.auto_calculate THEN focus.delays
                       ELSE calculate_delays_from_angle(config.steering_angle_deg,
                                                        config.speed_of_sound,
                                                        DEFAULT_FREQUENCY_HZ)
             combined == combine_channel_delays(delays)
         IN IF combined.err
            THEN ApplyFrame("apply_beamforming", "http500",
                            [NoLocals EXCEPT !.delays = delays], << >>)
            ELSE ApplyFrame("apply_beamforming", "run",
                            [NoLocals EXCEPT !.delays = delays,
                                             !.packed = combined.words],
                            delay_sequence(combined.words))

InitialBeamforming ==
    [auto_calculate |-> TRUE, steering_angle_deg |-> 0, speed_of_sound |-> 1500]

BeamformingConfigs ==
    { InitialBeamforming,
      [auto_calculate |-> FALSE, steering_angle_deg |-> 0, speed_of_sound |-> 1500],
      [auto_calculate |-> FALSE, steering_angle_deg |-> 30, speed_of_sound |-> 1000],
      [auto_calculate |-> FALSE, steering_angle_deg |-> -15, speed_of_sound |-> 2000] }

\* What the focal-point solver (an external collaborator) may return.
FocusResults ==
    { [err |-> TRUE, delays |-> << >>] }
    \cup { [err |-> FALSE, delays |-> d] :
             d \in { [k \in 1..NUM_CHANNELS |-> 0],
                     [k \in 1..NUM_CHANNELS |-> IF k <= 16 THEN 3 * (16 - k) ELSE 3 * (k - 17)],
                     [k \in 1..NUM_CHANNELS |-> IF k = 2 THEN 16383 ELSE k],
                     [k \in 1..NUM_CHANNELS |-> IF k = 5 THEN -4 ELSE 7],
                     [k \in 1..(NUM_CHANNELS - 1) |-> 0],
                     [k \in 1..(NUM_CHANNELS + 1) |-> 0] } }

----------------------------------------------------------------------------
(* The channel router. *)

\* _initialize_channel_state: channel k of the list is channel_id k.
initialize_channel_state(state) ==
    IF state = << >>
    THEN [k \in 1..NUM_CHANNELS |-> [enabled |-> TRUE, power_down |-> FALSE]]
    ELSE state

\* 1 << i as a pair <<hi, lo>>.
Shifted1(i) == IF i < 16 THEN <<0, 2 ^ i>> ELSE <<2 ^ (i - 16), 0>>

PairOr(a, b) == <<BitOr(a[1], b[1]), BitOr(a[2], b[2])>>

\* power_down_mask after the channels from index i on were looked at.
RECURSIVE power_down_mask(_, _)
power_down_mask(state, i) ==
    IF i >= Len(state) THEN W0
    ELSE LET channel == state[i + 1]
             rest == power_down_mask(state, i + 1)
         IN IF channel.power_down \/ ~channel.enabled
            THEN PairOr(rest, Shifted1(i))
            ELSE rest

\* apply_channel_config up to its first controller call.
apply_channel_config(state) ==
    IF ~is_connected
    THEN ApplyFrame("apply_channel_config", "http400", NoLocals, << >>)
    ELSE ApplyFrame("apply_channel_config", "run", NoLocals,
            << Call("enable_sync", 0, Flag(FALSE), W0),
               Call("write_reg", 7,
                    PairOr(<<65535, 0>>,
                           power_down_mask(initialize_channel_state(state), 0)),
                    W0) >>)

\* A ChannelConfig a client may send: channel_id, enabled, power_down.
ChannelIds == {1, 17}
ChannelUpdates ==
    { [channel_id |-> c, enabled |-> e, power_down |-> d] :
        c \in ChannelIds, e \in BOOLEAN, d \in BOOLEAN }

----------------------------------------------------------------------------
(* reset_device and the reset methods of the controller. *)

ResetTypes == {"hardware", "software", "memory"}

\* The first call of each plan is the method's own ensure_connected.
reset_device(reset_type) ==
    IF ~is_connected THEN ApplyFrame("reset_device", "http400", NoLocals, << >>)
    ELSE CASE reset_type = "hardware" ->
                ApplyFrame("hardware_reset", "run", NoLocals,
                    << Call("hardware_reset", 0, W0, W0),
                       Call("write_reg", 92, W(4096), W0) >>)
           [] reset_type = "software" ->
                ApplyFrame("software_reset", "run", NoLocals,
                    << Call("software_reset", 0, W0, W0),
                       Call("write_reg", 0, W(1), W0) >>)
           [] reset_type = "memory" ->
                ApplyFrame("memory_reset", "run", NoLocals,
                    << Call("memory_reset", 0, W0, W0) >>
                    \o [k \in 1..64 |-> Call("write_reg", k - 1, W0, <<0, 65535>>)])
           [] OTHER -> ApplyFrame("reset_device", "http400", NoLocals, << >>)

----------------------------------------------------------------------------
(* DiagnosticsService.run_diagnostics. *)

\* The binary digits of n, most significant first, zero-padded to width.
RECURSIVE Binary(_, _)
Binary(n, width) ==
    IF width = 0 THEN << >>
    ELSE Append(Binary(n \div 2, width - 1), IF n % 2 = 1 THEN "1" ELSE "0")

\* format(reg, '032b') of a 32-bit value: a string of 32 characters.
format032b(w) == Binary(w[1], 16) \o Binary(w[2], 16)

\* int(s, 2)
RECURSIVE int2(_)
int2(s) ==
    IF s = << >> THEN 0
    ELSE 2 * int2(SubSeq(s, 1, Len(s) - 1)) + (IF s[Len(s)] = "1" THEN 1 ELSE 0)

\* Python indexing and slicing of a string: s[k], s[-n:], s[:n].
CharAt(s, k) == s[k + 1]
LastChars(s, n) == SubSeq(s, Len(s) - n + 1, Len(s))
FirstChars(s, n) == SubSeq(s, 1, n)

\* Mutant of DIAGNOSTIC_REGS: 0x4E is read before 0x4D.
DIAGNOSTIC_REGS_swapped == <<29, 78, 77, 98, 108, 120>>

DIAGNOSTIC_REGS == <<29, 77, 78, 98, 108, 120>>   \* 0x1D 0x4D 0x4E 0x62 0x6C 0x78

\* Mutant of diagnostic_checks: NO_CLK_ERR reads the character at index 16.
diagnostic_checks_clk_index(reg1D, reg4D, reg4E, reg62, reg6C, reg78) ==
    LET reg1D_bin == format032b(reg1D)
        reg4D_bin == format032b(reg4D)
        reg4E_bin == format032b(reg4E)
        reg62_bin == format032b(reg62)
        reg6C_bin == format032b(reg6C)
        reg78_bin == format032b(reg78)
    IN << int2(LastChars(reg4D_bin, 6)) = 0,
          int2(LastChars(reg62_bin, 6)) = 0,
          CharAt(reg6C_bin, 16) = "1",
          CharAt(reg1D_bin, 31) = "0",
          CharAt(reg1D_bin, 29) = "0",
          CharAt(reg4E_bin, 27) = "0",
          CharAt(reg4E_bin, 26) = "0",
          CharAt(reg4E_bin, 16) = "0",
          CharAt(reg78_bin, 29) = "0",
          CharAt(reg78_bin, 31) = "0",
          int2(FirstChars(reg4D_bin, 5)) = 21,
          int2(FirstChars(reg4E_bin, 5)) = 10,
          int2(FirstChars(reg62_bin, 5)) = 11,
          int2(FirstChars(reg6C_bin, 5)) = 22,
          int2(FirstChars(reg78_bin, 5)) = 25,
          CharAt(reg4D_bin, 15) = "0" >>

\* "passed" of the sixteen diagnostic_checks, in order.
diagnostic_checks(reg1D, reg4D, reg4E, reg62, reg6C, reg78) ==
    LET reg1D_bin == format032b(reg1D)
        reg4D_bin == format032b(reg4D)
        reg4E_bin == format032b(reg4E)
        reg62_bin == format032b(reg62)
        reg6C_bin == format032b(reg6C)
        reg78_bin == format032b(reg78)
    IN << int2(LastChars(reg4D_bin, 6)) = 0,
          int2(LastChars(reg62_bin, 6)) = 0,
          CharAt(reg6C_bin, 15) = "1",
          CharAt(reg1D_bin, 31) = "0",
          CharAt(reg1D_bin, 29) = "0",
          CharAt(reg4E_bin, 27) = "0",
          CharAt(reg4E_bin, 26) = "0",
          CharAt(reg4E_bin, 16) = "0",
          CharAt(reg78_bin, 29) = "0",
          CharAt(reg78_bin, 31) = "0",
          int2(FirstChars(reg4D_bin, 5)) = 21,
          int2(FirstChars(reg4E_bin, 5)) = 10,
          int2(FirstChars(reg62_bin, 5)) = 11,
          int2(FirstChars(reg6C_bin, 5)) = 22,
          int2(FirstChars(reg78_bin, 5)) = 25,
          CharAt(reg4D_bin, 15) = "0" >>

\* The router's run_diagnostics up to the first call of the service.
run_diagnostics ==
    IF ~is_connected THEN ApplyFrame("run_diagnostics", "http400", NoLocals, << >>)
    ELSE ApplyFrame("run_diagnostics", "run", [NoLocals EXCEPT !.stage = "reads"],
            << Call("ensure_connected", 0, W0, W0) >>
            \o [k \in DOMAIN DIAGNOSTIC_REGS |->
                  Call("read_reg", DIAGNOSTIC_REGS[k], W0, W0)])

\* check_name of the sixteen diagnostic_checks, in order.
CHECK_NAMES ==
    << "TEMP_SHUT_ERR[11:6]", "TEMP_SHUT_ERR[5:0]", "NO_CLK_ERR", "SINGLE_LVL_ERR",
       "LONG_TRAN_ERR", "P5V_SUP_ERR", "M5V_SUP_ERR", "PHV_RANGE_ERR", "TRIG_ERR",
       "STANDBY_ERR", "VALID_FLAG_1", "VALID_FLAG_2", "VALID_FLAG_3", "VALID_FLAG_4",
       "VALID_FLAG_5", "ERROR_RST" >>

\* Mutant of overall_status: a run never reports FAIL.
overall_status_always_pass(all_passed) == "PASS"

\* "PASS" if all_passed else "FAIL"
overall_status(all_passed) == IF all_passed THEN "PASS" ELSE "FAIL"

\* Mutant of reset_error_flags: ERROR_RST is cleared before it is set.
reset_error_flags_clear_first(reg6C) ==
    (IF CharAt(format032b(reg6C), 15) # "1" THEN << Call("write_reg", 8, W(2), W0) >> ELSE << >>)
    \o << Call("write_reg", 77, W0, W0),
          Call("write_reg", 77, <<1, 0>>, W0) >>

\* The writes of the attempt to reset the error flags.
reset_error_flags(reg6C) ==
    (IF CharAt(format032b(reg6C), 15) # "1" THEN << Call("write_reg", 8, W(2), W0) >> ELSE << >>)
    \o << Call("write_reg", 77, <<1, 0>>, W0),
          Call("write_reg", 77, W0, W0) >>

\* The handler after the last call of its plan returned; reads are the
\* values its read_reg calls returned.
Finish(f, reads) ==
    IF f.kind = "run_diagnostics" /\ f.loc.stage = "reads"
    THEN LET passed == diagnostic_checks(reads[1], reads[2], reads[3],
                                         reads[4], reads[5], reads[6])
             checks == [k \in DOMAIN passed |->
                          [check_name |-> CHECK_NAMES[k], passed |-> passed[k]]]
             all_passed == \A k \in DOMAIN passed : passed[k]
         IN IF all_passed
            THEN [f EXCEPT !.st = "done", !.result = overall_status(TRUE),
                           !.loc.stage = "passed", !.loc.checks = checks]
            ELSE [f EXCEPT !.loc.stage = "reset", !.loc.checks = checks,
                           !.plan = @ \o reset_error_flags(reads[5])]
    ELSE IF f.kind = "run_diagnostics"
    THEN [f EXCEPT !.st = "done", !.result = overall_status(FALSE),
                   !.loc.stage = "reset_done",
                   !.loc.checks = Append(@, [check_name |-> "ERROR_RESET",
                                             passed |-> TRUE])]
    ELSE [f EXCEPT !.st = "done", !.result = "ok"]

\* What readReg may return for a register: for a diagnostic register the
\* value of a healthy device and faulty ones.
ReadValuesAt(addr) ==
    CASE addr = 29  -> {W0, <<0, 1>>}
      [] addr = 77  -> {<<43008, 0>>, <<43008, 1>>, W0}
      [] addr = 78  -> {<<20480, 0>>, W0}
      [] addr = 98  -> {<<22528, 0>>, W0}
      [] addr = 108 -> {<<45057, 0>>, <<45056, 0>>, W0}
      [] addr = 120 -> {<<51200, 0>>, <<51200, 4>>, W0}
      [] OTHER      -> {W0, <<43008, 1>>}

----------------------------------------------------------------------------
(* Inputs drawn for the direct controller calls. *)

PAGE_GLOBAL == W0
PAGE_PATTERN == <<0, 65535>>      \* 0x0000FFFF
PAGE_DELAY == <<1, 0>>            \* 0x00010000

LinkAddrs == {2, 8, 64}
LinkValues == {W0, W(2), <<65535, 5>>}
PageSelects == {PAGE_GLOBAL, PAGE_PATTERN, PAGE_DELAY}

----------------------------------------------------------------------------
(* Initial state: TX7332Controller.__init__, no request submitted. *)

Init ==
    /\ connected = FALSE
    /\ device = "None"
    /\ regs = [a \in TrackedRegs |-> W0]
    /\ req = [r \in Requests |-> IdleFrame]
    /\ calls = << >>
    /\ log = << >>
    /\ failures = 0
    /\ cur_pattern = InitialPattern
    /\ cur_bf = InitialBeamforming
    /\ channel_state = << >>
    /\ fn_in = << >>
    /\ fn_out = << >>
    /\ link_ret = NoReturn

----------------------------------------------------------------------------
(* A request reaches the event loop; its handler starts when the loop is   *)
(* free, and the request's content is read then.  The response is          *)
(* delivered (and the record of the request dropped) before the next       *)
(* handler starts.                                                         *)

Submit(r) ==
    /\ NextId(r)
    /\ req' = [req EXCEPT ![r] = [IdleFrame EXCEPT !.st = "pending"]]
    /\ UNCHANGED <<link_ret, cfg, connected, device, regs, calls, log, failures, fn_in, fn_out>>

Respond(r) ==
    /\ req[r].st = "done"
    /\ req' = [req EXCEPT ![r] = IdleFrame]
    /\ calls' = SelectSeq(calls, LAMBDA e : e.req # r)
    /\ log' = SelectSeq(log, LAMBDA e : e.req # r)
    /\ UNCHANGED <<link_ret, cfg, connected, device, regs, failures, fn_in, fn_out>>

Running(r) == req[r].st = "running"
InCall(r) == Running(r) /\ req[r].sub >= 1
CurCall(r) == req[r].plan[req[r].pos]
CurOp(r) == DeviceOps(CurCall(r))[req[r].sub]
\* The index in calls of the call request r is in.
CallIx(r) ==
    CHOOSE i \in DOMAIN calls : calls[i].req = r /\ calls[i].pos = req[r].pos

\* The handler of request r starts and runs up to its first controller call
\* (frame f), or to an early exit (f.st = "done").
Begin(r, f) ==
    /\ req[r].st = "pending"
    /\ CanStart(r)
    /\ \A q \in Requests : req[q].st # "done"
    /\ link_ret = NoReturn
    /\ req' = [req EXCEPT ![r] = f]

\* A direct call of a controller method.
Direct(kind, arg) ==
    [IdleFrame EXCEPT !.kind = kind, !.arg = arg, !.st = "running",
                      !.plan = << Call(kind, arg.addr, arg.val, arg.ps) >>]

\* A caller invokes controller.write_reg(address, value, page_select).
StartWriteReg(r) ==
    /\ \E a \in LinkAddrs, v \in LinkValues, p \in PageSelects :
         Begin(r, Direct("write_reg", [addr |-> a, val |-> v, ps |-> p]))
    /\ UNCHANGED <<link_ret, cfg, connected, device, regs, calls, log, failures, fn_in, fn_out>>

\* A caller invokes controller.read_reg(address, page_select).
StartReadReg(r) ==
    /\ \E a \in LinkAddrs, p \in PageSelects :
         Begin(r, Direct("read_reg", [addr |-> a, val |-> W0, ps |-> p]))
    /\ UNCHANGED <<link_ret, cfg, connected, device, regs, calls, log, failures, fn_in, fn_out>>

\* A caller invokes controller.enable_sync(enable).
StartEnableSync(r) ==
    /\ \E b \in BOOLEAN :
         Begin(r, Direct("enable_sync", [addr |-> 0, val |-> Flag(b), ps |-> W0]))
    /\ UNCHANGED <<link_ret, cfg, connected, device, regs, calls, log, failures, fn_in, fn_out>>

----------------------------------------------------------------------------
(* The endpoints that drive the device, and those that set what they use.  *)

\* POST /api/patterns/apply
StartApplyPattern(r) ==
    /\ Begin(r, apply_pattern(cur_pattern))
    /\ UNCHANGED <<link_ret, cfg, connected, device, regs, calls, log, failures, fn_in, fn_out>>

PresetNames == (DOMAIN PRESET_PATTERNS) \cup {"custom"}

\* POST /api/patterns/apply-preset/{pattern_type}: 404 for an unknown type,
\* else _current_pattern is replaced and apply_pattern runs.
StartApplyPresetPattern(r) ==
    /\ \E pattern_type \in PresetNames :
         IF pattern_type \notin DOMAIN PRESET_PATTERNS
         THEN /\ Begin(r, ApplyFrame("apply_preset_pattern", "http404", NoLocals, << >>))
              /\ cur_pattern' = cur_pattern
         ELSE LET pattern == [pattern_type |-> pattern_type, custom_hex |-> << >>]
              IN /\ Begin(r, apply_pattern(pattern))
                 /\ cur_pattern' = pattern
    /\ UNCHANGED <<link_ret, cur_bf, channel_state, connected, device, regs, calls, log,
                   failures, fn_in, fn_out>>

\* POST /api/beamforming/apply
StartApplyBeamforming(r) ==
    /\ \E focus \in FocusResults : Begin(r, apply_beamforming(cur_bf, focus))
    /\ UNCHANGED <<link_ret, cfg, connected, device, regs, calls, log, failures, fn_in, fn_out>>

\* POST /api/channels/apply
StartApplyChannelConfig(r) ==
    /\ Begin(r, apply_channel_config(channel_state))
    /\ channel_state' = IF is_connected THEN initialize_channel_state(channel_state)
                        ELSE channel_state
    /\ UNCHANGED <<link_ret, cur_pattern, cur_bf, connected, device, regs, calls, log,
                   failures, fn_in, fn_out>>

\* POST /api/device/diagnostics
StartRunDiagnostics(r) ==
    /\ Begin(r, run_diagnostics)
    /\ UNCHANGED <<link_ret, cfg, connected, device, regs, calls, log, failures, fn_in, fn_out>>

\* POST /api/device/reset
StartResetDevice(r) ==
    /\ \E reset_type \in ResetTypes : Begin(r, reset_device(reset_type))
    /\ UNCHANGED <<link_ret, cfg, connected, device, regs, calls, log, failures, fn_in, fn_out>>

\* PUT /api/patterns/current: the body is stored as it is.
UpdateCurrentPattern ==
    /\ LoopIdle
    /\ \E pattern \in PatternConfigs : cur_pattern' = pattern
    /\ UNCHANGED <<link_ret, cur_bf, channel_state, connected, device, regs, req, calls, log,
                   failures, fn_in, fn_out>>

\* The body of POST /api/patterns/custom is stored.
custom_pattern_accepted(pattern) ==
    \/ pattern.custom_hex = << >>
    \/ LET parsed == [k \in DOMAIN pattern.custom_hex |-> int16(pattern.custom_hex[k])]
       IN /\ \A k \in DOMAIN parsed : ~parsed[k].err
          /\ validate_custom_pattern([k \in DOMAIN parsed |-> parsed[k].val])

\* POST /api/patterns/custom
CreateCustomPattern ==
    /\ LoopIdle
    /\ \E pattern \in PatternConfigs :
         cur_pattern' = IF custom_pattern_accepted(pattern) THEN pattern
                        ELSE cur_pattern
    /\ UNCHANGED <<link_ret, cur_bf, channel_state, connected, device, regs, req, calls, log,
                   failures, fn_in, fn_out>>

\* PUT /api/beamforming/config
UpdateBeamformingConfig ==
    /\ LoopIdle
    /\ \E config \in BeamformingConfigs : cur_bf' = config
    /\ UNCHANGED <<link_ret, cur_pattern, channel_state, connected, device, regs, req, calls,
                   log, failures, fn_in, fn_out>>

\* PUT /api/channels/{channel_id}
UpdateChannel ==
    /\ LoopIdle
    /\ \E channel \in ChannelUpdates :
         channel_state' =
            [initialize_channel_state(channel_state) EXCEPT ![channel.channel_id] =
                [enabled |-> channel.enabled, power_down |-> channel.power_down]]
    /\ UNCHANGED <<link_ret, cur_pattern, cur_bf, connected, device, regs, req, calls, log,
                   failures, fn_in, fn_out>>

----------------------------------------------------------------------------
(* Execution of a handler, one controller call and one transport operation *)
(* at a time.                                                              *)

CallRecord(r, c, st) ==
    [req |-> r, pos |-> req[r].pos, fn |-> c.fn, addr |-> c.addr, val |-> c.val,
     ps |-> c.ps, st |-> st, ret |-> W0, live |-> device = "live"]

\* ensure_connected passes at the head of a controller method.
EnterCall(r) ==
    /\ Running(r)
    /\ req[r].sub = 0
    /\ req[r].pos <= Len(req[r].plan)
    /\ is_connected
    /\ LET c == CurCall(r)
           n == Len(DeviceOps(c))
       IN /\ calls' = Append(calls,
                        CallRecord(r, c, IF n = 0 THEN "returned" ELSE "active"))
          /\ req' = [req EXCEPT ![r] =
                 IF n = 0 THEN [@ EXCEPT !.pos = @ + 1]
                 ELSE [@ EXCEPT !.sub = 1]]
    /\ UNCHANGED <<link_ret, cfg, connected, device, regs, log, failures, fn_in, fn_out>>

\* ensure_connected raises DeviceControllerError("Device not connected").
NotConnected(r) ==
    /\ Running(r)
    /\ req[r].sub = 0
    /\ req[r].pos <= Len(req[r].plan)
    /\ ~is_connected
    /\ calls' = Append(calls, CallRecord(r, CurCall(r), "not_connected"))
    /\ req' = [req EXCEPT ![r] = on_exception(@, "NotConnected")]
    /\ UNCHANGED <<link_ret, cfg, connected, device, regs, log, failures, fn_in, fn_out>>

\* The frame after its current transport operation succeeded.
Advance(f) ==
    IF f.sub = Len(DeviceOps(f.plan[f.pos]))
    THEN [f EXCEPT !.pos = @ + 1, !.sub = 0]
    ELSE [f EXCEPT !.sub = @ + 1]

CallsAfterOp(r, ret) ==
    IF req[r].sub = Len(DeviceOps(CurCall(r)))
    THEN [calls EXCEPT ![CallIx(r)] = [@ EXCEPT !.st = "returned", !.ret = ret]]
    ELSE [calls EXCEPT ![CallIx(r)] = [@ EXCEPT !.ret = ret]]

Entry(r, op, v, ok) ==
    [req |-> r, pos |-> req[r].pos, op |-> op.op, addr |-> op.addr,
     val |-> v, ok |-> ok]

\* device.writeReg(addr, value) succeeds.
DeviceWriteReg(r) ==
    /\ InCall(r)
    /\ device = "live"
    /\ CurOp(r).op = "writeReg"
    /\ log' = Append(log, Entry(r, CurOp(r), CurOp(r).val, TRUE))
    /\ regs' = Written(regs, CurOp(r).addr, CurOp(r).val)
    /\ calls' = CallsAfterOp(r, calls[CallIx(r)].ret)
    /\ req' = [req EXCEPT ![r] = Advance(@)]
    /\ UNCHANGED <<link_ret, cfg, connected, device, failures, fn_in, fn_out>>

\* device.readReg(addr) succeeds and returns some value v.
DeviceReadReg(r) ==
    /\ InCall(r)
    /\ device = "live"
    /\ CurOp(r).op = "readReg"
    /\ \E v \in ReadValuesAt(CurOp(r).addr) :
         /\ log' = Append(log, Entry(r, CurOp(r), v, TRUE))
         /\ calls' = CallsAfterOp(r, v)
    /\ req' = [req EXCEPT ![r] = Advance(@)]
    /\ UNCHANGED <<link_ret, cfg, connected, device, regs, failures, fn_in, fn_out>>

\* device.enableSync(enable) succeeds.
DeviceEnableSync(r) ==
    /\ InCall(r)
    /\ device = "live"
    /\ CurOp(r).op = "enableSync"
    /\ log' = Append(log, Entry(r, CurOp(r), CurOp(r).val, TRUE))
    /\ calls' = CallsAfterOp(r, calls[CallIx(r)].ret)
    /\ req' = [req EXCEPT ![r] = Advance(@)]
    /\ UNCHANGED <<link_ret, cfg, connected, device, regs, failures, fn_in, fn_out>>

\* An operation on device.controller.instrument (hardware_reset) succeeds.
DeviceRaw(r) ==
    /\ InCall(r)
    /\ device = "live"
    /\ CurOp(r).op \in {"setBitMode", "write"}
    /\ log' = Append(log, Entry(r, CurOp(r), CurOp(r).val, TRUE))
    /\ calls' = CallsAfterOp(r, calls[CallIx(r)].ret)
    /\ req' = [req EXCEPT ![r] = Advance(@)]
    /\ UNCHANGED <<link_ret, cfg, connected, device, regs, failures, fn_in, fn_out>>

\* The transport raises in the current operation; the exception leaves the
\* controller method.  A write that raised may or may not have reached the
\* device.
DeviceError(r) ==
    /\ InCall(r)
    /\ device = "live"
    /\ failures < MaxFailures
    /\ log' = Append(log, Entry(r, CurOp(r), CurOp(r).val, FALSE))
    /\ calls' = [calls EXCEPT ![CallIx(r)] = [@ EXCEPT !.st = "raised"]]
    /\ failures' = failures + 1
    /\ \/ regs' = regs
       \/ /\ CurOp(r).op = "writeReg"
          /\ regs' = Written(regs, CurOp(r).addr, CurOp(r).val)
    /\ req' = [req EXCEPT ![r] = on_exception(@, "TransportError")]
    /\ UNCHANGED <<link_ret, cfg, connected, device, fn_in, fn_out>>

\* The USBQPort object has no instrument: every operation on it raises.
DeviceMissing(r) ==
    /\ InCall(r)
    /\ device = "dead"
    /\ log' = Append(log, Entry(r, CurOp(r), CurOp(r).val, FALSE))
    /\ calls' = [calls EXCEPT ![CallIx(r)] = [@ EXCEPT !.st = "raised"]]
    /\ req' = [req EXCEPT ![r] = on_exception(@, "TransportError")]
    /\ UNCHANGED <<link_ret, cfg, connected, device, regs, failures, fn_in, fn_out>>

\* The values the read_reg calls of request r returned, in order.
ReadsOf(r) ==
    LET own == SelectSeq(calls, LAMBDA e : e.req = r /\ e.fn = "read_reg")
    IN [k \in DOMAIN own |-> own[k].ret]

\* The handler is past the last call of its plan: it returns, or
\* (run_diagnostics, after a failed check) goes on to reset the error flags.
Return(r) ==
    /\ Running(r)
    /\ req[r].sub = 0
    /\ req[r].pos > Len(req[r].plan)
    /\ req' = [req EXCEPT ![r] = Finish(@, ReadsOf(r))]
    /\ UNCHANGED <<link_ret, cfg, connected, device, regs, calls, log, failures, fn_in, fn_out>>

----------------------------------------------------------------------------
(* connect / disconnect.  Neither touches a register; each runs to its     *)
(* return inside one handler, so it is one step, taken between handlers.   *)

\* What USBQPort(addr) can do: raise, return an object whose
\* controller.instrument is None, or return one with an instrument.
Outcomes == {"raises", "no_instrument", "instrument"}

\* The loop over addresses_to_try, from the controller state st.
RECURSIVE connect(_, _)
connect(outcomes, st) ==
    IF outcomes = << >> THEN [st EXCEPT !.ret = FALSE]
    ELSE IF Head(outcomes) = "raises" THEN connect(Tail(outcomes), st)
    ELSE IF Head(outcomes) = "instrument"
         THEN [device |-> "live", connected |-> TRUE, ret |-> TRUE]
    ELSE connect(Tail(outcomes), [st EXCEPT !.device = "dead"])

\* disconnect(): clears the controller only when the device has an instrument.
disconnect(st) ==
    IF st.device = "live"
    THEN [device |-> "None", connected |-> FALSE, ret |-> TRUE]
    ELSE [st EXCEPT !.ret = TRUE]

Controller == [device |-> device, connected |-> connected, ret |-> FALSE]

\* One address given, or the four common addresses tried in turn.
AddressCounts == {1, 4}

Connect ==
    /\ LoopIdle
    /\ \E st \in { connect(outcomes, Controller) :
                      outcomes \in UNION { [1..n -> Outcomes] : n \in AddressCounts } } :
         /\ device' = st.device
         /\ connected' = st.connected
         /\ link_ret' = <<"connect", st.ret>>
    /\ UNCHANGED <<cfg, regs, req, calls, log, failures, fn_in, fn_out>>

Disconnect ==
    /\ LoopIdle
    /\ LET st == disconnect(Controller)
       IN /\ device' = st.device
          /\ connected' = st.connected
          /\ link_ret' = <<"disconnect", st.ret>>
    /\ UNCHANGED <<cfg, regs, req, calls, log, failures, fn_in, fn_out>>

\* connect_device or disconnect_device returns its response.
RespondLink ==
    /\ link_ret # NoReturn
    /\ link_ret' = NoReturn
    /\ UNCHANGED <<connected, device, cfg, regs, req, calls, log, failures,
                   fn_in, fn_out>>

----------------------------------------------------------------------------
(* The register link on its own: direct calls of the controller methods.   *)

NextLink ==
    \/ Connect
    \/ Disconnect
    \/ RespondLink
    \/ \E r \in Requests :
         \/ Submit(r)
         \/ Respond(r)
         \/ StartWriteReg(r)
         \/ StartReadReg(r)
         \/ StartEnableSync(r)
         \/ EnterCall(r)
         \/ NotConnected(r)
         \/ DeviceWriteReg(r)
         \/ DeviceReadReg(r)
         \/ DeviceEnableSync(r)
         \/ DeviceError(r)
         \/ DeviceMissing(r)
         \/ Return(r)

SpecLink == Init /\ [][NextLink]_vars

----------------------------------------------------------------------------
(* The pattern endpoints, the beamforming endpoints, and all the endpoints *)
(* that run a sequence of register accesses.                               *)

\* The router has checked is_connected before the first call and nothing
\* disconnects while a handler runs: ensure_connected always passes here.
Execute(r) ==
    \/ EnterCall(r)
    \/ DeviceWriteReg(r)
    \/ DeviceEnableSync(r)
    \/ DeviceMissing(r)
    \/ Return(r)

NextPattern ==
    \/ Connect
    \/ Disconnect
    \/ RespondLink
    \/ UpdateCurrentPattern
    \/ CreateCustomPattern
    \/ \E r \in Requests :
         \/ Submit(r)
         \/ Respond(r)
         \/ StartApplyPattern(r)
         \/ StartApplyPresetPattern(r)
         \/ Execute(r)
         \/ DeviceError(r)

SpecPattern == Init /\ [][NextPattern]_vars

NextBeam ==
    \/ Connect
    \/ Disconnect
    \/ RespondLink
    \/ UpdateBeamformingConfig
    \/ \E r \in Requests :
         \/ Submit(r)
         \/ Respond(r)
         \/ StartApplyBeamforming(r)
         \/ Execute(r)
         \/ DeviceError(r)

SpecBeam == Init /\ [][NextBeam]_vars

\* The diagnostics endpoint, with transport errors.
NextDiag ==
    \/ Connect
    \/ Disconnect
    \/ RespondLink
    \/ \E r \in Requests :
         \/ Submit(r)
         \/ Respond(r)
         \/ StartRunDiagnostics(r)
         \/ EnterCall(r)
         \/ DeviceWriteReg(r)
         \/ DeviceReadReg(r)
         \/ DeviceError(r)
         \/ DeviceMissing(r)
         \/ Return(r)

SpecDiag == Init /\ [][NextDiag]_vars

\* The two apply endpoints together, with transport errors; the pattern and
\* the beamforming configuration are the initial ones.
NextApply ==
    \/ Connect
    \/ Disconnect
    \/ RespondLink
    \/ \E r \in Requests :
         \/ Submit(r)
         \/ Respond(r)
         \/ StartApplyPattern(r)
         \/ StartApplyBeamforming(r)
         \/ Execute(r)
         \/ DeviceError(r)

SpecApply == Init /\ [][NextApply]_vars

Next ==
    \/ Connect
    \/ Disconnect
    \/ RespondLink
    \/ \E r \in Requests :
         \/ Submit(r)
         \/ Respond(r)
         \/ StartApplyPattern(r)
         \/ StartApplyBeamforming(r)
         \/ StartApplyChannelConfig(r)
         \/ StartRunDiagnostics(r)
         \/ StartResetDevice(r)
         \/ Execute(r)
         \/ DeviceReadReg(r)
         \/ DeviceRaw(r)

Spec == Init /\ [][Next]_vars

----------------------------------------------------------------------------
(* Properties of the register link. *)

\* The transport operations call i has attempted, as <<op, addr, value>>.
IssuedBy(i) ==
    LET own == SelectSeq(log, LAMBDA e :
                   e.req = calls[i].req /\ e.pos = calls[i].pos)
    IN [k \in DOMAIN own |-> <<own[k].op, own[k].addr, own[k].val>>]

AllSucceeded(i) ==
    \A k \in DOMAIN log :
        (log[k].req = calls[i].req /\ log[k].pos = calls[i].pos) => log[k].ok

IsPrefix(s, t) ==
    /\ Len(s) <= Len(t)
    /\ \A k \in DOMAIN s : s[k] = t[k]

\* C1: a write_reg call that passed ensure_connected issues writeReg(2,
\* page_select), writeReg(address, value), writeReg(2, 0) in this order and
\* nothing else: all three when it returns, a prefix of them while it runs
\* or when the transport raised.
C1_WriteRegSequence ==
    \A i \in DOMAIN calls :
        (calls[i].fn = "write_reg" /\ calls[i].st # "not_connected") =>
            LET expected == << <<"writeReg", 2, calls[i].ps>>,
                               <<"writeReg", calls[i].addr, calls[i].val>>,
                               <<"writeReg", 2, <<0, 0>> >> >>
            IN /\ IsPrefix(IssuedBy(i), expected)
               /\ calls[i].st = "returned" =>
                     (IssuedBy(i) = expected /\ AllSucceeded(i))

C1_Witness ==
    \E i \in DOMAIN calls :
        /\ calls[i].fn = "write_reg"
        /\ calls[i].st = "returned"
        /\ calls[i].addr = 64
        /\ calls[i].val = <<65535, 5>>
        /\ calls[i].ps = PAGE_PATTERN
        /\ Len(IssuedBy(i)) = 3

\* C2: a read_reg call that passed ensure_connected issues writeReg(2,
\* page_select), writeReg(0, 2), readReg(address), writeReg(0, 0),
\* writeReg(2, 0) in this order and nothing else, and returns the value the
\* readReg obtained.
C2_ReadRegSequence ==
    \A i \in DOMAIN calls :
        (calls[i].fn = "read_reg" /\ calls[i].st # "not_connected") =>
            LET got == IssuedBy(i)
                before == << <<"writeReg", 2, calls[i].ps>>,
                             <<"writeReg", 0, <<0, 2>> >> >>
                after == << <<"writeReg", 0, <<0, 0>> >>,
                            <<"writeReg", 2, <<0, 0>> >> >>
            IN /\ Len(got) <= 5
               /\ IsPrefix(SubSeq(got, 1, IF Len(got) < 2 THEN Len(got) ELSE 2), before)
               /\ Len(got) >= 3 =>
                     /\ got[3][1] = "readReg"
                     /\ got[3][2] = calls[i].addr
                     /\ IsPrefix(SubSeq(got, 4, Len(got)), after)
               /\ calls[i].st = "returned" =>
                     /\ Len(got) = 5
                     /\ AllSucceeded(i)
                     /\ calls[i].ret = got[3][3]

C2_Witness ==
    \E i \in DOMAIN calls :
        /\ calls[i].fn = "read_reg"
        /\ calls[i].st = "returned"
        /\ calls[i].ps = PAGE_DELAY
        /\ calls[i].ret = <<43008, 1>>
        /\ Len(IssuedBy(i)) = 5

\* C3: as long as no transport operation has raised, the page-select
\* register holds 0 whenever no write_reg or read_reg call is in progress.
NoTransaction == \A r \in Requests : ~InCall(r)

C3_PageSelectRestored ==
    (failures = 0 /\ NoTransaction) => regs[REG_PAGE_SELECT] = <<0, 0>>

\* Reached after write_reg(8, v # 0) returned earlier and write_reg(2, v # 0,
\* page_select # 0) has just returned.
C3_Witness ==
    /\ failures = 0
    /\ NoTransaction
    /\ regs[8] # W0
    /\ regs[REG_PAGE_SELECT] = W0
    /\ \E i \in DOMAIN calls :
         /\ calls[i].fn = "write_reg"
         /\ calls[i].st = "returned"
         /\ calls[i].addr = 2
         /\ calls[i].val # W0
         /\ calls[i].ps # W0

\* C5: a register operation invoked while the controller holds no transport
\* (no device object, or one without instrument) fails with the
\* not-connected error and attempts no transport operation.
C5_FailsFastWithoutTransport ==
    \A i \in DOMAIN calls :
        ~calls[i].live =>
            /\ calls[i].st = "not_connected"
            /\ IssuedBy(i) = << >>

----------------------------------------------------------------------------
(* The delay encoder on its own. *)

Quiet ==
    /\ link_ret = NoReturn
    /\ connected = FALSE
    /\ device = "None"
    /\ regs = [a \in TrackedRegs |-> W0]
    /\ req = [r \in Requests |-> IdleFrame]
    /\ calls = << >>
    /\ log = << >>
    /\ failures = 0
    /\ cur_pattern = InitialPattern
    /\ cur_bf = InitialBeamforming
    /\ channel_state = << >>

InitEncode ==
    /\ Quiet
    /\ fn_in \in (0..MaxCycles) \X BOOLEAN
    /\ fn_out = << >>

Encode ==
    /\ fn_out = << >>
    /\ fn_out' = << encode_delay_to_hex(fn_in[1], fn_in[2]) >>
    /\ UNCHANGED <<link_ret, cfg, connected, device, regs, req, calls, log, failures, fn_in>>

SpecEncode == InitEncode /\ [][Encode]_vars

\* C6: for cycles in 0..16383 the encoded value has bits [13:0] = cycles,
\* bit 14 = 1 exactly when fractional, and bit 15 = 0.
C6_EncodeBits ==
    (fn_out # << >> /\ fn_in[1] \in 0..16383) =>
        LET v == fn_out[1]
        IN /\ v % 16384 = fn_in[1]
           /\ ((v \div 16384) % 2 = 1) <=> fn_in[2]
           /\ (v \div 32768) % 2 = 0

C6_Witness ==
    /\ fn_in = <<16383, TRUE>>
    /\ fn_out = <<32767>>

----------------------------------------------------------------------------
(* The channel pairing on its own. *)

\* Delay arrays: a background value with one channel set apart, so that
\* every channel position is told from its neighbours; also out-of-range
\* entries (negative, above 14 bits).
DelayValues == {0, 5, 16383}
SpikeValues == {1, 16383, 16384, -1}
DelayLens == {0} \cup ((NUM_CHANNELS - 1)..MaxDelayLen)

DelayArrays ==
    { [i \in 1..n |-> IF i = p THEN v ELSE b] :
        n \in DelayLens, p \in 1..NUM_CHANNELS, v \in SpikeValues, b \in DelayValues }

InitCombine ==
    /\ Quiet
    /\ fn_in \in DelayArrays
    /\ fn_out = << >>

Combine ==
    /\ fn_out = << >>
    /\ fn_out' = << combine_channel_delays(fn_in) >>
    /\ UNCHANGED <<link_ret, cfg, connected, device, regs, req, calls, log, failures, fn_in>>

SpecCombine == InitCombine /\ [][Combine]_vars

\* C7: a 32-element array is combined into 16 words; the low 16 bits of word
\* i are encode(delays[2i]) and the high 16 bits are encode(delays[2i+1])
\* (i counted from 0).
C7_CombinePairs ==
    (fn_out # << >> /\ Len(fn_in) = 32) =>
        LET out == fn_out[1]
        IN /\ ~out.err
           /\ Len(out.words) = 16
           /\ \A i \in 0..15 :
                /\ out.words[i + 1] % 65536 = encode_delay_to_hex(fn_in[2 * i + 1], FALSE)
                /\ out.words[i + 1] \div 65536 = encode_delay_to_hex(fn_in[2 * i + 2], FALSE)

\* Channel index 6 (the low half of register 3) is 16383, its neighbours 5.
C7_Witness ==
    /\ fn_out # << >>
    /\ Len(fn_in) = 32
    /\ fn_in[7] = 16383
    /\ fn_in[8] = 5
    /\ fn_out[1].words[4] = 5 * 65536 + 16383
    /\ fn_out[1].words[3] = 5 * 65536 + 5

----------------------------------------------------------------------------
(* Properties of the apply sequences. *)

\* The controller calls request r has made, as <<fn, addr, value, page>>.
CallsOf(r) ==
    LET own == SelectSeq(calls, LAMBDA e : e.req = r)
    IN [k \in DOMAIN own |-> <<own[k].fn, own[k].addr, own[k].val, own[k].ps>>]

\* The transport operations request r has attempted.
LogOf(r) == SelectSeq(log, LAMBDA e : e.req = r)

\* The calls the pattern write procedure prescribes for words and start word s.
PatternCalls(words, s) ==
    << <<"enable_sync", 0, <<0, 0>>, <<0, 0>> >>,
       <<"write_reg", 8, <<0, 0>>, <<0, 0>> >> >>
    \o [k \in 1..8 |-> <<"write_reg", 11 + k, <<s, s>>, <<0, 0>> >>]
    \o [k \in 1..Len(words) |-> <<"write_reg", 63 + s + k, words[k], <<0, 65535>> >>]

\* C9: an apply of the pattern words[1..n] with start word s calls, in this
\* order and with nothing else in between or after: sync disable;
\* write(0x08, 0); write(0x0C..0x13, (s << 16) | s) on page 0; write(0x40 + s
\* + i, words[i]) with page select 0x0000FFFF.  The calls made so far are a
\* prefix of this list, and all of it when the apply succeeded; each write
\* is the three transport writes of write_reg.
C9_PatternSequence ==
    \A r \in Requests :
        (req[r].kind = "apply_pattern" /\ req[r].loc.words # << >>) =>
            LET expected == PatternCalls(req[r].loc.words, req[r].loc.start)
            IN /\ IsPrefix(CallsOf(r), expected)
               /\ req[r].result = "ok" =>
                    /\ CallsOf(r) = expected
                    /\ Len(LogOf(r)) = 1 + 3 * (Len(expected) - 1)
                    /\ \A k \in DOMAIN LogOf(r) : LogOf(r)[k].ok

\* The apply of [0x00020002, 0x0000B5B1] with start word 0x001E succeeded:
\* eight writes of 0x001E001E, then writes to 0x5E and 0x5F.
C9_Witness ==
    \E r \in Requests :
        /\ req[r].kind = "apply_pattern"
        /\ req[r].result = "ok"
        /\ req[r].loc.words = << <<2, 2>>, <<0, 46513>> >>
        /\ Len(CallsOf(r)) = 12
        /\ \A k \in 3..10 : CallsOf(r)[k] = <<"write_reg", 9 + k, <<30, 30>>, <<0, 0>> >>
        /\ CallsOf(r)[11] = <<"write_reg", 94, <<2, 2>>, <<0, 65535>> >>
        /\ CallsOf(r)[12] = <<"write_reg", 95, <<0, 46513>>, <<0, 65535>> >>

\* The calls the delay write procedure prescribes for 16 packed words.
DelayCalls(packed) ==
    << <<"enable_sync", 0, <<0, 0>>, <<0, 0>> >> >>
    \o [k \in 1..8 |-> <<"write_reg", 12 + k, <<0, 0>>, <<0, 0>> >>]
    \o [k \in 1..16 |->
          <<"write_reg", 63 + k, <<packed[k] \div 65536, packed[k] % 65536>>, <<1, 0>> >>]
    \o << <<"enable_sync", 0, <<0, 1>>, <<0, 0>> >>,
          <<"write_reg", 8, <<0, 2>>, <<0, 0>> >> >>

\* C8: combine_channel_delays raises for every array whose length is not 32,
\* and an apply_beamforming whose delay array has another length ends with
\* the error without any controller call or transport operation.
C8_RejectsBeforeAnyWrite ==
    /\ \A focus \in FocusResults :
         Len(focus.delays) # 32 => combine_channel_delays(focus.delays).err
    /\ \A r \in Requests :
         (req[r].kind = "apply_beamforming" /\ Len(req[r].loc.delays) \notin {0, 32}) =>
            /\ req[r].st = "done"
            /\ req[r].result = "http500"
            /\ CallsOf(r) = << >>
            /\ LogOf(r) = << >>

\* An apply on a connected, live device got 33 delays from the solver.
C8_Witness ==
    \E r \in Requests :
        /\ req[r].kind = "apply_beamforming"
        /\ Len(req[r].loc.delays) = 33
        /\ req[r].result = "http500"
        /\ device = "live"
        /\ connected

\* C10: a successful apply_beamforming has called, in order and nothing
\* else: sync disable; write(0x0D..0x14, 0) on page 0; write(0x40 + i,
\* packed[i]) for i = 0..15 with page select 0x00010000; sync enable;
\* write(0x08, 2), which is its last write.  All sixteen delay words are 0
\* when all 32 delays are 0.
C10_DelaySequence ==
    \A r \in Requests :
        (req[r].kind = "apply_beamforming" /\ req[r].result = "ok") =>
            /\ Len(req[r].loc.packed) = 16
            /\ CallsOf(r) = DelayCalls(req[r].loc.packed)
            /\ \A k \in DOMAIN LogOf(r) : LogOf(r)[k].ok
            /\ LET writes == SelectSeq(LogOf(r), LAMBDA e : e.op = "writeReg" /\ e.addr # 2)
               IN /\ Len(writes) = 8 + 16 + 1
                  /\ writes[Len(writes)].addr = 8
                  /\ writes[Len(writes)].val = <<0, 2>>
            /\ (\A k \in DOMAIN req[r].loc.delays : req[r].loc.delays[k] = 0) =>
                  \A k \in 10..25 : CallsOf(r)[k][3] = <<0, 0>>

\* An apply of 32 zero delays succeeded; register 0x08 holds 2.
C10_Witness ==
    \E r \in Requests :
        /\ req[r].kind = "apply_beamforming"
        /\ req[r].result = "ok"
        /\ Len(req[r].loc.delays) = 32
        /\ \A k \in 1..32 : req[r].loc.delays[k] = 0
        /\ CallsOf(r)[25] = <<"write_reg", 79, <<0, 0>>, <<1, 0>> >>
        /\ regs[8] = <<0, 2>>

\* C4: the transport operations of a request are contiguous: once another
\* request has made an operation, the first makes no more.
C4_NoInterleaving ==
    \A j \in 2..Len(log) :
        log[j].req # log[j - 1].req =>
            \A i \in 1..(j - 1) : log[i].req # log[j].req

\* A request is in the middle of the operations of apply_beamforming while
\* another request waits for the event loop.
C4_Witness ==
    \E r, q \in Requests :
        /\ req[r].kind = "apply_beamforming"
        /\ req[r].st = "running"
        /\ Len(LogOf(r)) > 30
        /\ req[q].st = "pending"

----------------------------------------------------------------------------
(* Ordering and failure paths of the apply sequences. *)

\* The records of the controller calls request r has made.
RecordsOf(r) == SelectSeq(calls, LAMBDA e : e.req = r)

\* C11: in a delay apply, a write_reg is called only after enable_sync(False)
\* returned, and enable_sync(True) or write_reg(0x08, 2) is called only after
\* the writes of all sixteen delay words (0x40..0x4F, page select
\* 0x00010000) returned.
C11_SyncBracketsDelayWrites ==
    \A r \in Requests :
        req[r].kind = "apply_beamforming" =>
            LET made == RecordsOf(r)
            IN \A k \in DOMAIN made :
                 /\ made[k].fn = "write_reg" =>
                      \E j \in 1..(k - 1) :
                          /\ made[j].fn = "enable_sync"
                          /\ made[j].val = <<0, 0>>
                          /\ made[j].st = "returned"
                 /\ (\/ made[k].fn = "enable_sync" /\ made[k].val = <<0, 1>>
                     \/ made[k].fn = "write_reg" /\ made[k].addr = 8
                                                 /\ made[k].val = <<0, 2>>) =>
                      \A i \in 0..15 :
                          \E j \in 1..(k - 1) :
                              /\ made[j].fn = "write_reg"
                              /\ made[j].addr = 64 + i
                              /\ made[j].ps = <<1, 0>>
                              /\ made[j].st = "returned"

\* A delay apply for a steering angle has enabled sync again.
C11_Witness ==
    \E r \in Requests :
        /\ req[r].kind = "apply_beamforming"
        /\ ~cur_bf.auto_calculate
        /\ Len(RecordsOf(r)) >= 26
        /\ RecordsOf(r)[26].fn = "enable_sync"
        /\ RecordsOf(r)[26].val = <<0, 1>>
        /\ RecordsOf(r)[26].st = "returned"

\* The enableSync operations request r has attempted.
SyncOpsOf(r) == SelectSeq(LogOf(r), LAMBDA e : e.op = "enableSync")

\* C12: a pattern, delay or channel apply that disabled sync and has ended,
\* normally or with an error, has enabled sync again: its last enableSync
\* operation is a successful enableSync(True).
C12_SyncRestoredOnExit ==
    \A r \in Requests :
        (/\ req[r].kind \in {"apply_pattern", "apply_beamforming", "apply_channel_config"}
         /\ req[r].st = "done"
         /\ \E k \in DOMAIN SyncOpsOf(r) :
                SyncOpsOf(r)[k].val = <<0, 0>> /\ SyncOpsOf(r)[k].ok) =>
            LET last == SyncOpsOf(r)[Len(SyncOpsOf(r))]
            IN last.val = <<0, 1>> /\ last.ok

\* C13: in a pattern or delay apply, a transport operation that raised is
\* the last operation of the request (nothing more is written, nothing is
\* retried), no further controller call is made, and the request has ended
\* with an error response.
C13_AbortOnTransportFailure ==
    \A r \in Requests :
        req[r].kind \in {"apply_pattern", "apply_beamforming"} =>
            \A k \in DOMAIN LogOf(r) :
                ~LogOf(r)[k].ok =>
                    /\ k = Len(LogOf(r))
                    /\ RecordsOf(r)[Len(RecordsOf(r))].st = "raised"
                    /\ req[r].st = "done"
                    /\ req[r].result = "http500"

\* On a live device the write of a delay word raised after some delay words
\* were written, and the write of a pattern word likewise.
C13_Witness ==
    \E r \in Requests :
        /\ device = "live"
        /\ req[r].kind \in {"apply_pattern", "apply_beamforming"}
        /\ req[r].result = "http500"
        /\ Len(LogOf(r)) > 32
        /\ LET last == LogOf(r)[Len(LogOf(r))]
           IN ~last.ok /\ last.op = "writeReg" /\ last.addr >= 64

----------------------------------------------------------------------------
(* Properties of run_diagnostics. *)

\* The six capture reads of request r returned: its snapshot is complete.
Captured(r) ==
    /\ req[r].kind = "run_diagnostics"
    /\ req[r].st = "done"
    /\ req[r].loc.stage \in {"passed", "reset_done", "reset_failed"}

\* The write_reg calls request r has made, as <<address, value>>.
WritesOf(r) ==
    LET own == SelectSeq(calls, LAMBDA e : e.req = r /\ e.fn = "write_reg")
    IN [k \in DOMAIN own |-> <<own[k].addr, own[k].val>>]

WritesReturned(r) ==
    \A k \in DOMAIN calls :
        (calls[k].req = r /\ calls[k].fn = "write_reg") => calls[k].st = "returned"

ChecksNamed(checks, name) ==
    Cardinality({ k \in DOMAIN checks : checks[k].check_name = name })

\* C14: a run whose six reads returned has the sixteen named checks first in
\* its list, in the fixed order; its status is PASS exactly when all sixteen
\* passed and FAIL otherwise, whether the reset of the error flags succeeded
\* or raised.
C14_StatusFromSixteenChecks ==
    \A r \in Requests :
        Captured(r) =>
            LET checks == req[r].loc.checks
            IN /\ Len(checks) >= 16
               /\ \A k \in 1..16 : checks[k].check_name = CHECK_NAMES[k]
               /\ \A k \in DOMAIN checks : k > 16 => checks[k].check_name = "ERROR_RESET"
               /\ req[r].result = (IF \A k \in 1..16 : checks[k].passed
                                   THEN "PASS" ELSE "FAIL")
               /\ req[r].loc.stage \in {"reset_done", "reset_failed"} =>
                      req[r].result = "FAIL"

\* A run whose only failed check is SINGLE_LVL_ERR reset the error flags
\* with success and reports FAIL.
C14_Witness ==
    \E r \in Requests :
        /\ Captured(r)
        /\ req[r].loc.stage = "reset_done"
        /\ \A k \in 1..16 : req[r].loc.checks[k].passed <=> k # 4
        /\ req[r].loc.checks[17].passed
        /\ req[r].result = "FAIL"

\* C15: the error flags are reset only when one of the sixteen checks
\* failed, and once: the write_reg calls of the run are write(0x08, 2) if
\* and only if NO_CLK_ERR failed, then write(0x4D, 1 << 16), then
\* write(0x4D, 0), or a prefix of these ending in the call that raised; one
\* ERROR_RESET entry is appended, passed exactly when all the writes
\* returned.  Six zero registers fail NO_CLK_ERR and VALID_FLAG_1..5.
C15_ResetOfErrorFlags ==
    \A r \in Requests :
        Captured(r) =>
            LET checks == req[r].loc.checks
                expected == (IF checks[3].passed THEN << >> ELSE << <<8, <<0, 2>> >> >>)
                            \o << <<77, <<1, 0>> >>, <<77, <<0, 0>> >> >>
            IN /\ (\A k \in 1..16 : checks[k].passed) =>
                     /\ WritesOf(r) = << >>
                     /\ Len(checks) = 16
               /\ (\E k \in 1..16 : ~checks[k].passed) =>
                     /\ IsPrefix(WritesOf(r), expected)
                     /\ Len(checks) = 17
                     /\ checks[17].check_name = "ERROR_RESET"
                     /\ checks[17].passed <=>
                            (WritesOf(r) = expected /\ WritesReturned(r))
               /\ (\A k \in 1..6 : ReadsOf(r)[k] = <<0, 0>>) =>
                     /\ ~checks[3].passed
                     /\ \A k \in 11..15 : ~checks[k].passed
                     /\ req[r].result = "FAIL"
                     /\ ChecksNamed(checks, "ERROR_RESET") = 1

\* Six zero registers were read and the three writes returned.
C15_Witness ==
    \E r \in Requests :
        /\ Captured(r)
        /\ \A k \in 1..6 : ReadsOf(r)[k] = <<0, 0>>
        /\ WritesOf(r) = << <<8, <<0, 2>> >>, <<77, <<1, 0>> >>, <<77, <<0, 0>> >> >>
        /\ req[r].loc.checks[17].passed

\* C16: when one of the six read_reg calls raises, the run ends there with
\* status FAIL and a list holding the single entry DIAGNOSTICS, not passed;
\* no write_reg is called.
C16_ReadFailureReport ==
    \A r \in Requests :
        (/\ req[r].kind = "run_diagnostics"
         /\ \E k \in DOMAIN calls :
               calls[k].req = r /\ calls[k].fn = "read_reg" /\ calls[k].st = "raised") =>
            /\ req[r].st = "done"
            /\ req[r].result = "FAIL"
            /\ req[r].loc.checks = << [check_name |-> "DIAGNOSTICS", passed |-> FALSE] >>
            /\ WritesOf(r) = << >>
            /\ RecordsOf(r)[Len(RecordsOf(r))].st = "raised"

\* On a live device the fourth read raised after three reads returned.
C16_Witness ==
    \E r \in Requests :
        /\ req[r].kind = "run_diagnostics"
        /\ device = "live"
        /\ Len(RecordsOf(r)) = 5
        /\ RecordsOf(r)[5].fn = "read_reg"
        /\ RecordsOf(r)[5].st = "raised"
        /\ req[r].result = "FAIL"

----------------------------------------------------------------------------
(* calculate_delays_from_angle on its own. *)

\* BeamformingConfig: -30 <= steering_angle_deg <= 30, 1000 <= speed_of_sound
\* <= 2000.
MIN_STEERING_DEG == -30
MAX_STEERING_DEG == 30
SteeringAngles == MIN_STEERING_DEG..MAX_STEERING_DEG
SpeedsOfSound == {1000, 1100, 1200, 1300, 1400, 1500, 1540, 1600, 1700, 1800, 1900, 2000}
Frequencies == {1000000, DEFAULT_FREQUENCY_HZ}

InitSteer ==
    /\ Quiet
    /\ fn_in \in SteeringAngles \X SpeedsOfSound \X Frequencies
    /\ fn_out = << >>

Steer ==
    /\ fn_out = << >>
    /\ fn_out' = << calculate_delays_from_angle(fn_in[1], fn_in[2], fn_in[3]) >>
    /\ UNCHANGED <<link_ret, cfg, connected, device, regs, req, calls, log, failures, fn_in>>

SpecSteer == InitSteer /\ [][Steer]_vars

C18_NormalizedDelays ==
    fn_out # << >> =>
        /\ Len(fn_out[1]) = 32
        /\ \A k \in 1..32 : fn_out[1][k] >= 0
        /\ \E k \in 1..32 : fn_out[1][k] = 0

\* 30 degrees at 1000 m/s: 227 cycles at the last element.
C18_Witness ==
    /\ fn_in = <<30, 1000, 5600000>>
    /\ fn_out # << >>
    /\ fn_out[1][32] = 227
    /\ fn_out[1][17] = 21
    /\ fn_out[1][1] = 0

\* The rounded cycle counts of the 32 elements before clamping:
\* round(pos * sin(angle) / speed_of_sound / 4e-9).
RoundedCycles(steering_angle_deg, speed_of_sound) ==
    [k \in DOMAIN ELEMENT_POSITIONS |->
        RoundHalfEven(ELEMENT_POSITIONS[k] * SinMicro(steering_angle_deg),
                      4000 * speed_of_sound)]

\* C26: the result keeps the profile of the rounded cycle counts up to a
\* constant offset: for all elements i and j, out[i] - out[j] is
\* cycles[i] - cycles[j].
C26_ProfilePreserved ==
    fn_out # << >> =>
        LET cycles == RoundedCycles(fn_in[1], fn_in[2])
        IN \A i, j \in 1..32 :
               fn_out[1][i] - fn_out[1][j] = cycles[i] - cycles[j]

----------------------------------------------------------------------------
(* Validation of what is written. *)

\* C19: an apply of a custom pattern that does not pass validation (a word
\* that is no hexadecimal number, or is outside 0..0xFFFFFFFF) makes no
\* controller call and no transport operation, and does not succeed.
C19_InvalidCustomPatternRejected ==
    \A r \in Requests :
        (/\ req[r].kind = "apply_pattern"
         /\ cur_pattern.custom_hex # << >>
         /\ ~custom_pattern_accepted(cur_pattern)) =>
            /\ CallsOf(r) = << >>
            /\ LogOf(r) = << >>
            /\ req[r].result # "ok"

\* C20: a delay array from the focal-point solver with a negative entry is
\* rejected: the apply makes no controller call and does not succeed.
C20_NegativeDelaysRejected ==
    \A r \in Requests :
        (/\ req[r].kind = "apply_beamforming"
         /\ cur_bf.auto_calculate
         /\ \E k \in DOMAIN req[r].loc.delays : req[r].loc.delays[k] < 0) =>
            /\ CallsOf(r) = << >>
            /\ LogOf(r) = << >>
            /\ req[r].result # "ok"

----------------------------------------------------------------------------
(* Register addresses. *)

\* C21: every register address handed to the transport is a 7-bit address
\* 0x00..0x7F: for every validated pattern, of any length, applied with start
\* word 0x1E, each transport operation of the apply addresses a register in
\* 0..127.
C21_SevenBitAddresses ==
    \A r \in Requests :
        (/\ req[r].kind = "apply_pattern"
         /\ req[r].loc.start = DEFAULT_START_WORD
         /\ validate_custom_pattern(req[r].loc.words)) =>
            \A k \in DOMAIN LogOf(r) : LogOf(r)[k].addr \in 0..127

----------------------------------------------------------------------------
(* Failures inside a register transaction. *)

\* The transport operations of the controller call c, in order.
OpsOfCall(c) == SelectSeq(log, LAMBDA e : e.req = c.req /\ e.pos = c.pos)

\* C22: when a transport operation of write_reg or read_reg fails after the
\* page-select write of that call was issued, the call still attempts the
\* write of 0 to the page-select register after the failed operation, before
\* the error reaches the caller.
C22_PageSelectResetOnFailure ==
    \A i \in DOMAIN calls :
        LET c == calls[i]
            ops == OpsOfCall(c)
        IN (/\ c.fn \in {"write_reg", "read_reg"}
            /\ c.st = "raised"
            /\ Len(ops) >= 2
            /\ ops[1].ok
            /\ ~ops[Len(ops)].ok) =>
               \E k \in DOMAIN log :
                   /\ log[k].req = c.req /\ log[k].pos = c.pos
                   /\ log[k].op = "writeReg"
                   /\ log[k].addr = REG_PAGE_SELECT
                   /\ log[k].val = W0
                   /\ \E j \in 1..(k - 1) :
                        log[j].req = c.req /\ log[j].pos = c.pos /\ ~log[j].ok

----------------------------------------------------------------------------
(* The capture of the diagnostic registers. *)

\* The positions of the register reads in a sequence of transport operations.
ReadPositions(ops) == { k \in DOMAIN ops : ops[k].op = "readReg" }

\* The addresses request r has read, in order.
ReadAddrsOf(r) ==
    LET reads == SelectSeq(LogOf(r), LAMBDA e : e.op = "readReg")
    IN [k \in DOMAIN reads |-> reads[k].addr]

\* C23: a diagnostics run reads 0x1D, 0x4D, 0x4E, 0x62, 0x6C, 0x78, once each
\* and in this order, on page 0, and all six before a check is evaluated;
\* from its first read to its last, its only transport writes are the
\* bracketing writes of read_reg, to registers 2 and 0.
C23_CaptureBeforeChecks ==
    \A r \in Requests :
        req[r].kind = "run_diagnostics" =>
            LET ops == LogOf(r)
                at == ReadPositions(ops)
                read == ReadAddrsOf(r)
            IN /\ IsPrefix(read, <<29, 77, 78, 98, 108, 120>>)
               /\ \A k \in at :
                    /\ k >= 3
                    /\ ops[k - 2].op = "writeReg" /\ ops[k - 2].ok
                    /\ ops[k - 2].addr = 2 /\ ops[k - 2].val = <<0, 0>>
                    /\ ops[k - 1].op = "writeReg" /\ ops[k - 1].ok
                    /\ ops[k - 1].addr = 0 /\ ops[k - 1].val = <<0, 2>>
               /\ \A i \in DOMAIN calls :
                    (calls[i].req = r /\ calls[i].fn = "read_reg") =>
                        calls[i].ps = <<0, 0>>
               /\ \A k \in DOMAIN ops :
                    ((\E a \in at : a <= k) /\ (\E b \in at : k <= b)) =>
                        \/ ops[k].op = "readReg"
                        \/ ops[k].op = "writeReg" /\ ops[k].addr \in {0, 2}
               /\ (\E k \in DOMAIN req[r].loc.checks :
                       req[r].loc.checks[k].check_name \in
                           { CHECK_NAMES[n] : n \in DOMAIN CHECK_NAMES }) =>
                      /\ read = <<29, 77, 78, 98, 108, 120>>
                      /\ \A k \in at : ops[k].ok

\* A run captured the six registers, failed a check and has written the
\* error-flag reset after the capture.
C23_Witness ==
    \E r \in Requests :
        /\ Captured(r)
        /\ req[r].loc.stage = "reset_done"
        /\ ReadAddrsOf(r) = <<29, 77, 78, 98, 108, 120>>
        /\ Len(req[r].loc.checks) = 17
        /\ \E k \in DOMAIN LogOf(r) :
             LogOf(r)[k].op = "writeReg" /\ LogOf(r)[k].addr = 77

----------------------------------------------------------------------------
(* The sixteen checks as predicates on register bits. *)

\* Bit n of a 32-bit value w, and the fields w & 0x3F and w >> 27.
BitOf(w, n) == IF n >= 16 THEN (w[1] \div (2 ^ (n - 16))) % 2 ELSE (w[2] \div (2 ^ n)) % 2
Low6(w) == w[2] % 64
Top5(w) == w[1] \div 2048

\* Register values: every value of the top five bits, of bit 16 and of the
\* low six bits, with the bits in between all clear or all set.
UpperHalves == { t * 2048 + m + b : t \in 0..31, m \in {0, 2046}, b \in {0, 1} }
LowerHalves == { h * 32768 + m + l : h \in {0, 1}, m \in {0, 32704}, l \in 0..63 }
RegisterValues == UpperHalves \X LowerHalves

\* The six registers of a device without a fault.
HealthyRegs == << <<0, 0>>, <<43008, 0>>, <<20480, 0>>, <<22528, 0>>,
                 <<45057, 0>>, <<51200, 0>> >>

InitChecks ==
    /\ Quiet
    /\ fn_in \in { [HealthyRegs EXCEPT ![k] = v] :
                     k \in DOMAIN HealthyRegs, v \in RegisterValues }
    /\ fn_out = << >>

Checks ==
    /\ fn_out = << >>
    /\ fn_out' = diagnostic_checks(fn_in[1], fn_in[2], fn_in[3],
                                   fn_in[4], fn_in[5], fn_in[6])
    /\ UNCHANGED <<link_ret, cfg, connected, device, regs, req, calls, log, failures, fn_in>>

SpecChecks == InitChecks /\ [][Checks]_vars

\* C24: each of the sixteen checks computed on the 32-character bit strings
\* equals its mask/shift predicate on the register value: TEMP_SHUT_ERR[11:6]
\* iff reg4D & 0x3F = 0, TEMP_SHUT_ERR[5:0] iff reg62 & 0x3F = 0, NO_CLK_ERR
\* iff bit 16 of reg6C is 1, ERROR_RST iff bit 16 of reg4D is 0, VALID_FLAG_1..5
\* iff the value >> 27 of 0x4D, 0x4E, 0x62, 0x6C, 0x78 is 21, 10, 11, 22, 25,
\* and a check on string index k is the check on bit 31 - k.
C24_ChecksAsBitPredicates ==
    fn_out # << >> =>
        LET reg1D == fn_in[1]
            reg4D == fn_in[2]
            reg4E == fn_in[3]
            reg62 == fn_in[4]
            reg6C == fn_in[5]
            reg78 == fn_in[6]
        IN /\ Len(fn_out) = 16
           /\ fn_out[1] <=> (Low6(reg4D) = 0)
           /\ fn_out[2] <=> (Low6(reg62) = 0)
           /\ fn_out[3] <=> (BitOf(reg6C, 16) = 1)
           /\ fn_out[4] <=> (BitOf(reg1D, 31 - 31) = 0)
           /\ fn_out[5] <=> (BitOf(reg1D, 31 - 29) = 0)
           /\ fn_out[6] <=> (BitOf(reg4E, 31 - 27) = 0)
           /\ fn_out[7] <=> (BitOf(reg4E, 31 - 26) = 0)
           /\ fn_out[8] <=> (BitOf(reg4E, 31 - 16) = 0)
           /\ fn_out[9] <=> (BitOf(reg78, 31 - 29) = 0)
           /\ fn_out[10] <=> (BitOf(reg78, 31 - 31) = 0)
           /\ fn_out[11] <=> (Top5(reg4D) = 21)
           /\ fn_out[12] <=> (Top5(reg4E) = 10)
           /\ fn_out[13] <=> (Top5(reg62) = 11)
           /\ fn_out[14] <=> (Top5(reg6C) = 22)
           /\ fn_out[15] <=> (Top5(reg78) = 25)
           /\ fn_out[16] <=> (BitOf(reg4D, 16) = 0)

\* reg6C = 0xFFFEFFFF has every bit set except bit 16: NO_CLK_ERR fails and
\* VALID_FLAG_4 fails, the other fourteen checks pass.
C24_Witness ==
    /\ fn_in = [HealthyRegs EXCEPT ![5] = <<65534, 65535>>]
    /\ Len(fn_out) = 16
    /\ \A k \in 1..16 : fn_out[k] <=> k \notin {3, 14}

----------------------------------------------------------------------------
(* A pattern apply followed by a delay apply. *)

\* A pattern apply with start word s has succeeded on the device: no transport
\* operation has raised, so the apply that wrote (s << 16) | s to 0x0C went on
\* to its last write; no later handler writes 0x0C.
PatternApplied(s) == failures = 0 /\ s # 0 /\ regs[12] = <<s, s>>

\* C25: after a pattern apply with start word s succeeded and a delay apply
\* after it succeeded, every register 0x0C..0x13 still holds (s << 16) | s.
C25_StartWordsKeptByDelayApply ==
    \A d \in Requests :
        (/\ req[d].kind = "apply_beamforming" /\ req[d].result = "ok"
         /\ PatternApplied(DEFAULT_START_WORD)) =>
            \A a \in 12..19 : regs[a] = <<DEFAULT_START_WORD, DEFAULT_START_WORD>>

----------------------------------------------------------------------------
(* connect() and disconnect(). *)

\* C27: connect() returns True exactly when is_connected() is true
\* afterwards, is_connected() is true only while the device object has an
\* instrument, and a connect that fails while connected does not leave the
\* controller connected with an unusable device.
C27_ConnectAgreesWithIsConnected ==
    /\ link_ret[1] = "connect" => (link_ret[2] <=> is_connected)
    /\ is_connected => device = "live"

\* C28: whenever disconnect() returns True, is_connected() is false
\* afterwards, and every register operation fails with the not-connected
\* error, without a transport operation, until a later connect succeeds.
C28_DisconnectedAfterDisconnect ==
    /\ (link_ret[1] = "disconnect" /\ link_ret[2]) => ~is_connected
    /\ ~is_connected =>
         \A i \in DOMAIN calls :
             calls[i].st = "not_connected" /\ IssuedBy(i) = << >>

----------------------------------------------------------------------------
(* The channel router on its own. *)

NextChannels ==
    \/ Connect
    \/ Disconnect
    \/ RespondLink
    \/ UpdateChannel
    \/ \E r \in Requests :
         \/ Submit(r)
         \/ Respond(r)
         \/ StartApplyChannelConfig(r)
         \/ Execute(r)

SpecChannels == Init /\ [][NextChannels]_vars

\* The channels of a configuration that are off: powered down or not enabled.
OffChannels(state) ==
    { k \in DOMAIN state : state[k].power_down \/ ~state[k].enabled }

\* The configuration in which exactly the channels of S are powered down.
ConfigWithOff(S) ==
    [k \in 1..NUM_CHANNELS |-> [enabled |-> TRUE, power_down |-> k \in S]]

\* The value the apply writes to 0x07 for a configuration.
PowerDownWord(state) == PairOr(<<65535, 0>>, power_down_mask(state, 0))

\* C29: the value written to 0x07 fits 32 bits, its upper 16 bits are 0xFFFF,
\* and it reflects the power-down state of all 32 channels: a configuration
\* with other channels off than the applied one gives another value.
C29_PowerDownWordReflectsChannels ==
    \A i \in DOMAIN calls :
        (/\ req[calls[i].req].kind = "apply_channel_config"
         /\ calls[i].fn = "write_reg"
         /\ calls[i].addr = 7) =>
            /\ calls[i].val[1] = 65535
            /\ calls[i].val[2] \in 0..65535
            /\ \A S \in SUBSET ChannelIds :
                 S # OffChannels(channel_state) =>
                    PowerDownWord(ConfigWithOff(S)) # calls[i].val

----------------------------------------------------------------------------
(* reset_device on its own, with transport errors. *)

NextReset ==
    \/ Connect
    \/ Disconnect
    \/ RespondLink
    \/ \E r \in Requests :
         \/ Submit(r)
         \/ Respond(r)
         \/ StartResetDevice(r)
         \/ EnterCall(r)
         \/ DeviceWriteReg(r)
         \/ DeviceRaw(r)
         \/ DeviceError(r)
         \/ DeviceMissing(r)
         \/ Return(r)

SpecReset == Init /\ [][NextReset]_vars

\* The calls of a memory reset: the method's own ensure_connected, then one
\* write of 0 with page select 0x0000FFFF per address 0x00..0x3F, ascending.
MemoryResetCalls ==
    << <<"memory_reset", 0, <<0, 0>>, <<0, 0>> >> >>
    \o [k \in 1..64 |-> <<"write_reg", k - 1, <<0, 0>>, <<0, 65535>> >>]

\* C30: a memory reset attempts exactly one write of 0 with page select
\* 0x0000FFFF to each address 0x00..0x3F in ascending order, goes on to the
\* next address after a write that failed, and never raises for a write
\* failure: the reset ends with all 64 writes attempted and reports success,
\* also when some of them failed.
C30_MemoryResetContinues ==
    \A r \in Requests :
        req[r].kind = "memory_reset" =>
            LET made == CallsOf(r)
                recs == RecordsOf(r)
            IN /\ IsPrefix(made, MemoryResetCalls)
               /\ req[r].st = "done" =>
                    /\ made = MemoryResetCalls
                    /\ req[r].result = "ok"
               /\ \A k \in DOMAIN recs :
                    recs[k].st = "raised" =>
                       \/ k < Len(recs)
                       \/ req[r].st = "running"
                       \/ k = Len(MemoryResetCalls)

\* On a live device the write to 0x05 raised after its page-select write, the
\* other 63 writes returned and the reset reported success.
C30_Witness ==
    \E r \in Requests :
        /\ req[r].kind = "memory_reset"
        /\ req[r].result = "ok"
        /\ device = "live"
        /\ LET recs == RecordsOf(r)
           IN /\ Len(recs) = 65
              /\ \A k \in 1..65 : recs[k].st = "raised" <=> k = 7
        /\ \E k \in DOMAIN LogOf(r) :
             LogOf(r)[k].addr = 5 /\ ~LogOf(r)[k].ok

====
